---- MODULE Spec2Model ----
(***************************************************************************)
(* Model of the VirtualPad control client (main_utils/virtualpad.js) and   *)
(* of the virtual keyboard component of the front-end.                     *)
(*                                                                         *)
(* JavaScript values are tagged records; text (stdout, stderr, the value   *)
(* of the keyboard) is a sequence of one-character strings, so that it can *)
(* be parsed, cut and compared character by character.                     *)
(***************************************************************************)
EXTENDS Integers, Sequences, FiniteSets, TLC

VARIABLES _pads, pc, call, invoked, proc, ret,
          caption, open, value, onChange, isSecret, closeReady, lastChange

padVars == <<_pads, pc, call, invoked, proc, ret>>
kbVars == <<caption, open, value, onChange, isSecret, closeReady, lastChange>>
vars == <<_pads, pc, call, invoked, proc, ret,
          caption, open, value, onChange, isSecret, closeReady, lastChange>>

(***************************************************************************)
(* Bounds of the model.                                                    *)
(***************************************************************************)
MaxCalls == 2
MaxLen == 3
MaxPadArg == 8
MaxExit == 2
MaxValueLen == 2

(***************************************************************************)
(* JavaScript values.  A string argument carries a TLA+ string; a string   *)
(* read from a text carries its characters.                                *)
(***************************************************************************)
Num(n) == [t |-> "number", n |-> n]
Str(s) == [t |-> "string", s |-> s]
Bool(b) == [t |-> "boolean", b |-> b]
Arr(a) == [t |-> "array", a |-> a]
Obj(m) == [t |-> "object", m |-> m]
Undefined == [t |-> "undefined"]
Null == [t |-> "null"]

\* Truthiness of a value, as used by `pads ||= []`.
IsFalsy(v) ==
    \/ v.t \in {"undefined", "null"}
    \/ v.t = "number" /\ v.n = 0
    \/ v.t = "string" /\ v.s = ""
    \/ v.t = "boolean" /\ ~v.b

\* Decimal representation of an integer, as produced by a template literal
\* or by Array.prototype.join.
RECURSIVE NumberToString(_)
NumberToString(n) ==
    IF n < 0 THEN "-" \o NumberToString(-n)
    ELSE IF n < 10 THEN <<"0", "1", "2", "3", "4", "5", "6", "7", "8", "9">>[n + 1]
    ELSE NumberToString(n \div 10) \o NumberToString(n % 10)

\* String conversion of a number or a string, as done by a template literal
\* and by Array.prototype.join.
StringOf(v) == IF v.t = "number" THEN NumberToString(v.n) ELSE v.s

(***************************************************************************)
(* JSON.parse, over texts whose characters are digits, '-', '[', ']',      *)
(* '{', '}', ',', ':', '"', ' ' and letters other than 'e'.                *)
(***************************************************************************)
Digits == {"0", "1", "2", "3", "4", "5", "6", "7", "8", "9"}
DigitValue(c) == CHOOSE d \in 0..9 : NumberToString(d) = c
Fail == [ok |-> FALSE]
Ok(v, next) == [ok |-> TRUE, v |-> v, next |-> next]

RECURSIVE SkipWs(_, _)
SkipWs(s, i) == IF i <= Len(s) /\ s[i] = " " THEN SkipWs(s, i + 1) ELSE i

\* Reads the digits from position i on; acc is the number read so far.
RECURSIVE ParseDigits(_, _, _)
ParseDigits(s, i, acc) ==
    IF i <= Len(s) /\ s[i] \in Digits
    THEN ParseDigits(s, i + 1, acc * 10 + DigitValue(s[i]))
    ELSE Ok(acc, i)

ParseNumber(s, i) ==
    LET neg == s[i] = "-"
        j == IF neg THEN i + 1 ELSE i
    IN  IF j > Len(s) \/ s[j] \notin Digits THEN Fail
        ELSE LET r == IF s[j] = "0" THEN Ok(0, j + 1) ELSE ParseDigits(s, j, 0)
             IN  Ok(Num(IF neg THEN 0 - r.v ELSE r.v), r.next)

\* s[i] is the opening quote; the string ends at the next quote.
RECURSIVE ParseString(_, _, _)
ParseString(s, i, k) ==
    IF k > Len(s) THEN Fail
    ELSE IF s[k] = "\"" THEN Ok(SubSeq(s, i + 1, k - 1), k + 1)
    ELSE ParseString(s, i, k + 1)

RECURSIVE ParseValue(_, _)
RECURSIVE ParseElements(_, _, _)
RECURSIVE ParseMembers(_, _, _)

ParseValue(s, i) ==
    LET j == SkipWs(s, i) IN
    IF j > Len(s) THEN Fail
    ELSE IF s[j] = "[" THEN
        LET k == SkipWs(s, j + 1) IN
        IF k <= Len(s) /\ s[k] = "]" THEN Ok(Arr(<<>>), k + 1)
        ELSE ParseElements(s, k, <<>>)
    ELSE IF s[j] = "{" THEN
        LET k == SkipWs(s, j + 1) IN
        IF k <= Len(s) /\ s[k] = "}" THEN Ok(Obj(<<>>), k + 1)
        ELSE ParseMembers(s, k, <<>>)
    ELSE IF s[j] = "\"" THEN
        LET r == ParseString(s, j, j + 1) IN
        IF r.ok THEN Ok(Str(r.v), r.next) ELSE Fail
    ELSE IF s[j] = "-" \/ s[j] \in Digits THEN ParseNumber(s, j)
    ELSE IF j + 3 <= Len(s) /\ SubSeq(s, j, j + 3) = <<"n", "u", "l", "l">>
        THEN Ok(Null, j + 4)
    ELSE Fail

ParseElements(s, i, acc) ==
    LET r == ParseValue(s, i) IN
    IF ~r.ok THEN Fail
    ELSE LET k == SkipWs(s, r.next) IN
         IF k > Len(s) THEN Fail
         ELSE IF s[k] = "," THEN ParseElements(s, k + 1, Append(acc, r.v))
         ELSE IF s[k] = "]" THEN Ok(Arr(Append(acc, r.v)), k + 1)
         ELSE Fail

\* A later member replaces an earlier one of the same key.
ParseMembers(s, i, acc) ==
    LET j == SkipWs(s, i) IN
    IF j > Len(s) \/ s[j] # "\"" THEN Fail
    ELSE LET key == ParseString(s, j, j + 1) IN
         IF ~key.ok THEN Fail
         ELSE LET c == SkipWs(s, key.next) IN
              IF c > Len(s) \/ s[c] # ":" THEN Fail
              ELSE LET r == ParseValue(s, c + 1) IN
                   IF ~r.ok THEN Fail
                   ELSE LET k == SkipWs(s, r.next)
                            m == (key.v :> r.v) @@ acc
                        IN  IF k > Len(s) THEN Fail
                            ELSE IF s[k] = "," THEN ParseMembers(s, k + 1, m)
                            ELSE IF s[k] = "}" THEN Ok(Obj(m), k + 1)
                            ELSE Fail

\* JSON.parse(text): the value, or a SyntaxError.
JSONParse(text) ==
    LET r == ParseValue(text, 1) IN
    IF r.ok /\ SkipWs(text, r.next) > Len(text) THEN [ok |-> TRUE, v |-> r.v]
    ELSE Fail

\* A variant that wraps the parsed value.
jsonParseWrapped(val) ==
    LET r == JSONParse(val) IN
    IF r.ok THEN [status |-> "ok", value |-> r.v]
    ELSE [status |-> "error", hint |-> "unknown", dump |-> val]

jsonParse(val) ==
    LET r == JSONParse(val) IN
    IF r.ok THEN r.v ELSE [status |-> "error", hint |-> "unknown", dump |-> val]

(***************************************************************************)
(* The admin tool's side: the texts a process writes and how it ends.      *)
(***************************************************************************)
RECURSIVE NumberChars(_)
NumberChars(n) ==
    IF n < 0 THEN <<"-">> \o NumberChars(-n)
    ELSE IF n < 10 THEN <<NumberToString(n)>>
    ELSE NumberChars(n \div 10) \o <<NumberToString(n % 10)>>

\* The text the admin tool writes for a value: ", " between items and ": "
\* after a key.
RECURSIVE Encode(_)
RECURSIVE EncodeItems(_, _)
RECURSIVE EncodeMembers(_, _)
Encode(v) ==
    CASE v.t = "number" -> NumberChars(v.n)
      [] v.t = "string" -> <<"\"">> \o v.s \o <<"\"">>
      [] v.t = "null" -> <<"n", "u", "l", "l">>
      [] v.t = "array" -> <<"[">> \o EncodeItems(v.a, 1) \o <<"]">>
      [] v.t = "object" -> <<"{">> \o EncodeMembers(v.m, DOMAIN v.m) \o <<"}">>
EncodeItems(a, i) ==
    IF i > Len(a) THEN <<>>
    ELSE Encode(a[i]) \o (IF i < Len(a) THEN <<",", " ">> ELSE <<>>) \o EncodeItems(a, i + 1)
EncodeMembers(m, keys) ==
    IF keys = {} THEN <<>>
    ELSE LET k == CHOOSE x \in keys : TRUE IN
         <<"\"">> \o k \o <<"\"", ":", " ">> \o Encode(m[k])
             \o (IF keys = {k} THEN <<>> ELSE <<",", " ">>)
             \o EncodeMembers(m, keys \ {k})

\* JSON values the admin tool may reply with.
Replies ==
    { Null, Num(0), Num(-1), Num(10), Str(<<"o", "k">>), Arr(<<>>),
      Arr(<<Num(1), Arr(<<Str(<<>>), Null>>)>>), Obj(<<>>),
      Obj(<<"a">> :> Num(7)),
      Obj((<<"o", "k">> :> Arr(<<Num(0), Num(1)>>)) @@ (<<"b">> :> Obj(<<"a">> :> Null))) }

\* Texts that are not JSON.
Garbage ==
    { <<>>, <<" ">>, <<"n", "o", "t", " ", "j", "s", "o", "n">>, <<"0", "1">>,
      <<"-">>, <<"[", "1", ",", "]">>, <<"[", "1">>, <<"{", "\"", "a", "\"", "}">>,
      <<"{", "\"", "a", "\"", ":", "1", ",", "}">>, <<"n", "u", "l">>,
      <<"\"", "o", "k">>, <<"1", " ", "2">>, <<"{", "}", "]">> }

Boom == <<"b", "o", "o", "m">>
StdErrs == {<<>>, Boom}

\* result is the error object of the run: undefined, or an object with the
\* exit code.
ExitResults == {Undefined} \cup {[code |-> c] : c \in 0..MaxExit}

Outcomes ==
    {[stdout |-> Encode(v), stderr |-> e, result |-> r, reply |-> v] :
        v \in Replies, e \in StdErrs, r \in ExitResults}
    \cup
    {[stdout |-> g, stderr |-> e, result |-> r, reply |-> Undefined] :
        g \in Garbage, e \in StdErrs, r \in ExitResults}

\* The outcomes drawn when several calls are in flight.
ConcOutcomes ==
    { [stdout |-> Encode(Num(7)), stderr |-> <<>>, result |-> Undefined, reply |-> Num(7)],
      [stdout |-> <<"n", "u", "l">>, stderr |-> <<>>, result |-> [code |-> 0], reply |-> Undefined],
      [stdout |-> Encode(Arr(<<>>)), stderr |-> Boom, result |-> [code |-> 1], reply |-> Arr(<<>>)],
      [stdout |-> <<>>, stderr |-> <<"-">>, result |-> [code |-> 2], reply |-> Undefined] }

(***************************************************************************)
(* The Pad Control API.  Each call runs in a slot c:                       *)
(*   pc[c]       "idle" (not called yet), the await the call is suspended  *)
(*               at, "returned" or "rejected";                             *)
(*   call[c]     the operation called and its argument;                    *)
(*   invoked[c]  the command lines the call has run so far;                *)
(*   proc[c]     the process of the call: not started, running, or exited  *)
(*               with its outcome;                                         *)
(*   ret[c]      the value the call returned, or the error it rejected     *)
(*               with.                                                     *)
(***************************************************************************)
Calls == 1..MaxCalls
AwaitSites == {"startServer", "stopServer", "checkServer", "clearAll", "clearPad",
               "status", "resetPasswords"}
Pending == [t |-> "pending"]
NoProcess == [state |-> "none"]
Running == [state |-> "running"]

\* Arguments given to clearPad.
PadArgs ==
    {Num(n) : n \in -1..MaxPadArg}
    \cup {Str(NumberToString(n)) : n \in 0..MaxPadArg}
    \cup {Str("all"), Str("x"), Str(""), Undefined, Null}

\* Arguments given to resetPasswords.
Elements == {Num(1), Num(3), Num(99), Str("2"), Str("x")}
SeqsUpTo(S, n) == UNION {[1..k -> S] : k \in 0..n}
PadsArgs ==
    {Arr(a) : a \in SeqsUpTo(Elements, MaxLen)}
    \cup {Undefined, Null, Num(0), Str(""), Bool(FALSE), Str("all"),
          Num(3), Str("3"), Bool(TRUE)}

\* The arguments drawn when several calls are in flight.
ConcPadArgs == {Str("all"), Num(1), Num(8)}
ConcPadsArgs == {Arr(<<Num(3)>>), Arr(<<>>)}

\* Slot c holds one call: it is free until that call is made.
Free(c) == pc[c] = "idle"

\* exec(cmd), up to the await: the command is run and the call suspends.
exec(c, site, cmd) ==
    /\ pc' = [pc EXCEPT ![c] = site]
    /\ invoked' = [invoked EXCEPT ![c] = <<cmd>>]
    /\ proc' = [proc EXCEPT ![c] = Running]
    /\ ret' = [ret EXCEPT ![c] = Pending]

\* The process of call c exits: exec's promise resolves with its outcome.
ProcessExit(c, out) ==
    /\ pc[c] \in AwaitSites
    /\ proc[c].state = "running"
    /\ proc' = [proc EXCEPT ![c] = [state |-> "exited", out |-> out]]
    /\ UNCHANGED <<_pads, pc, call, invoked, ret, kbVars>>

\* A variant that keeps the outcome of the latest run in one place shared by
\* all calls.
AwaitedShared(c) ==
    LET d == CHOOSE x \in Calls : proc[x].state = "exited" IN proc[d].out

\* const {stdout, stderr, result} = await exec(...)
Awaited(c) == proc[c].out

\* result?.code || 0
ExitCode(result) ==
    IF result = Undefined THEN 0
    ELSE IF result.code = 0 THEN 0 ELSE result.code

\* {code, details: code ? {satus: "error", ...} : jsonParse(stdout)}
ParsedResult(out) ==
    LET code == ExitCode(out.result) IN
    [code |-> code,
     details |-> IF code # 0
                 THEN [satus |-> "error", hint |-> "unknown", dump |-> out.stderr]
                 ELSE jsonParse(out.stdout)]

\* The async function returns v: its promise is fulfilled.
Return(c, v) ==
    /\ pc' = [pc EXCEPT ![c] = "returned"]
    /\ ret' = [ret EXCEPT ![c] = v]

\* The call resumes after its await and returns.
Resume(c, site, v) ==
    /\ pc[c] = site
    /\ proc[c].state = "exited"
    /\ Return(c, v)
    /\ UNCHANGED <<_pads, call, invoked, proc, kbVars>>

startServer(c) ==
    /\ Free(c)
    /\ call' = [call EXCEPT ![c] = [op |-> "startServer", arg |-> Undefined]]
    /\ exec(c, "startServer", "virtualpad-admin server start")
    /\ UNCHANGED <<_pads, kbVars>>

\* A variant that runs the command again when it failed.
startServerRetry(c) ==
    /\ pc[c] = "startServer"
    /\ proc[c].state = "exited"
    /\ IF ExitCode(Awaited(c).result) # 0 /\ Len(invoked[c]) < 2
       THEN /\ invoked' = [invoked EXCEPT ![c] = Append(@, "virtualpad-admin server start")]
            /\ proc' = [proc EXCEPT ![c] = Running]
            /\ UNCHANGED <<pc, ret>>
       ELSE /\ Return(c, ParsedResult(Awaited(c)))
            /\ UNCHANGED <<invoked, proc>>
    /\ UNCHANGED <<_pads, call, kbVars>>

startServerResume(c) == Resume(c, "startServer", ParsedResult(Awaited(c)))

stopServer(c) ==
    /\ Free(c)
    /\ call' = [call EXCEPT ![c] = [op |-> "stopServer", arg |-> Undefined]]
    /\ exec(c, "stopServer", "virtualpad-admin server stop")
    /\ UNCHANGED <<_pads, kbVars>>

stopServerResume(c) == Resume(c, "stopServer", ParsedResult(Awaited(c)))

checkServer(c) ==
    /\ Free(c)
    /\ call' = [call EXCEPT ![c] = [op |-> "checkServer", arg |-> Undefined]]
    /\ exec(c, "checkServer", "virtualpad-admin server check")
    /\ UNCHANGED <<_pads, kbVars>>

checkServerResume(c) == Resume(c, "checkServer", ParsedResult(Awaited(c)))

clearPad(c, pad) ==
    /\ Free(c)
    /\ call' = [call EXCEPT ![c] = [op |-> "clearPad", arg |-> pad]]
    /\ IF pad = Str("all")
       THEN exec(c, "clearAll", "virtualpad-admin pad clear-all")
       ELSE IF pad \in _pads
       THEN exec(c, "clearPad", "virtualpad-admin pad clear " \o StringOf(pad))
       ELSE /\ Return(c, [code |-> 1,
                          details |-> [satus |-> "error", hint |-> "pad:invalid-index",
                                       index |-> pad]])
            /\ invoked' = [invoked EXCEPT ![c] = <<>>]
            /\ proc' = [proc EXCEPT ![c] = NoProcess]
    /\ UNCHANGED <<_pads, kbVars>>

\* A variant that decodes stdout, as the single-pad branch does.
clearAllResumeParsed(c) == Resume(c, "clearAll", ParsedResult(Awaited(c)))

clearAllResume(c) ==
    LET code == ExitCode(Awaited(c).result) IN
    Resume(c, "clearAll",
           [code |-> code,
            details |-> IF code # 0
                        THEN [satus |-> "error", hint |-> "unknown",
                              dump |-> Awaited(c).stderr]
                        ELSE [type |-> "response", status |-> "pad:ok"]])

clearPadResume(c) == Resume(c, "clearPad", ParsedResult(Awaited(c)))

status(c) ==
    /\ Free(c)
    /\ call' = [call EXCEPT ![c] = [op |-> "status", arg |-> Undefined]]
    /\ exec(c, "status", "virtualpad-admin pad status")
    /\ UNCHANGED <<_pads, kbVars>>

statusResume(c) == Resume(c, "status", ParsedResult(Awaited(c)))

\* Array.prototype.join(" ")
RECURSIVE Join(_)
Join(a) ==
    IF a = <<>> THEN ""
    ELSE IF Len(a) = 1 THEN StringOf(a[1])
    ELSE StringOf(a[1]) \o " " \o Join(Tail(a))

\* A variant that keeps every element.
FilterAll(a) == a

\* A variant that also drops the elements already kept.
RECURSIVE Unique(_)
Unique(a) ==
    IF a = <<>> THEN <<>>
    ELSE LET front == Unique(SubSeq(a, 1, Len(a) - 1))
             e == a[Len(a)]
         IN  IF \E i \in 1..Len(front) : front[i] = e THEN front ELSE Append(front, e)
FilterUnique(a) == Unique(SelectSeq(a, LAMBDA e : e \in _pads))

\* pads.filter(e => _pads.has(e))
Filter(a) == SelectSeq(a, LAMBDA e : e \in _pads)

\* The two normalising statements before the filter: pads ||= [] and the
\* expansion of "all".
Normalize(pads) ==
    LET p1 == IF IsFalsy(pads) THEN Arr(<<>>) ELSE pads
    IN  IF p1 = Str("all")
        THEN Arr(<<Num(0), Num(1), Num(2), Num(3), Num(4), Num(5), Num(6), Num(7)>>)
        ELSE p1

resetPasswords(c, pads) ==
    /\ Free(c)
    /\ call' = [call EXCEPT ![c] = [op |-> "resetPasswords", arg |-> pads]]
    /\ LET p == Normalize(pads) IN
       IF p.t # "array"
       THEN \* pads.filter is not a function
            /\ pc' = [pc EXCEPT ![c] = "rejected"]
            /\ ret' = [ret EXCEPT ![c] = [error |-> "TypeError"]]
            /\ invoked' = [invoked EXCEPT ![c] = <<>>]
            /\ proc' = [proc EXCEPT ![c] = NoProcess]
       ELSE IF Len(Filter(p.a)) = 0
       THEN /\ Return(c, [code |-> 0])
            /\ invoked' = [invoked EXCEPT ![c] = <<>>]
            /\ proc' = [proc EXCEPT ![c] = NoProcess]
       ELSE exec(c, "resetPasswords",
                 "virtualpad-admin pad reset-passwords " \o Join(Filter(p.a)))
    /\ UNCHANGED <<_pads, kbVars>>

resetPasswordsResume(c) == Resume(c, "resetPasswords", ParsedResult(Awaited(c)))

(***************************************************************************)
(* The virtual keyboard (the component after secretize in                  *)
(* BaseActivitySection.jsx).  Its state is the component's useState cells; *)
(* every handler runs against the state of the latest render.              *)
(*   onChange    {callback: null}, or the closure made by open: it holds   *)
(*               the caller's onChange and the value given to open;        *)
(*   lastChange  the latest call of the caller's onChange: the function    *)
(*               called, the value confirm passed to the closure and the   *)
(*               value the caller's function received.                     *)
(***************************************************************************)
Keys == {"a", "b"}
Captions == {"name"}
Callbacks == {"onChange1", "onChange2"}
InitialValues == SeqsUpTo(Keys, MaxValueLen)

\* ref.current.open(caption, isSecret, value, onChange)
kbOpen(cap, secret, v0, cb) ==
    /\ caption' = cap
    /\ isSecret' = secret
    /\ value' = v0
    /\ onChange' = [callback |-> [fn |-> cb, value |-> v0]]
    /\ open' = TRUE
    /\ UNCHANGED <<padVars, closeReady, lastChange>>

append(chr) ==
    /\ open
    /\ Len(value) < MaxValueLen
    /\ value' = value \o <<chr>>
    /\ UNCHANGED <<padVars, caption, open, onChange, isSecret, closeReady, lastChange>>

backspace ==
    /\ open
    /\ value' = IF Len(value) # 0 THEN SubSeq(value, 1, Len(value) - 1) ELSE <<>>
    /\ UNCHANGED <<padVars, caption, open, onChange, isSecret, closeReady, lastChange>>

\* onChange.callback(value): the closure made by open calls the caller's
\* function with the value it captured; a null callback throws, and the
\* error is caught.
CallbackCall(v) ==
    IF onChange.callback = Null THEN lastChange
    ELSE [fn |-> onChange.callback.fn, passed |-> v,
          received |-> onChange.callback.value]

confirm ==
    /\ open
    /\ lastChange' = CallbackCall(value)
    /\ open' = FALSE
    /\ UNCHANGED <<padVars, caption, value, onChange, isSecret, closeReady>>

cancel ==
    /\ open' = FALSE
    /\ UNCHANGED <<padVars, caption, value, onChange, isSecret, closeReady, lastChange>>

\* The RT button held for 500 ms.
refClose ==
    /\ open' = IF closeReady THEN FALSE ELSE open
    /\ UNCHANGED <<padVars, caption, value, onChange, isSecret, closeReady, lastChange>>

\* The timer set when the component mounts.
closeReadyTimeout ==
    /\ ~closeReady
    /\ closeReady' = TRUE
    /\ UNCHANGED <<padVars, caption, open, value, onChange, isSecret, lastChange>>

(***************************************************************************)
(* Specifications.                                                         *)
(***************************************************************************)
PadsInit ==
    /\ _pads = {Num(n) : n \in 0..7} \cup {Str(NumberToString(n)) : n \in 0..7}
    /\ pc = [c \in Calls |-> "idle"]
    /\ call = [c \in Calls |-> [op |-> "none", arg |-> Undefined]]
    /\ invoked = [c \in Calls |-> <<>>]
    /\ proc = [c \in Calls |-> NoProcess]
    /\ ret = [c \in Calls |-> Pending]

KbInit ==
    /\ caption = ""
    /\ open = FALSE
    /\ value = <<>>
    /\ onChange = [callback |-> Null]
    /\ isSecret = FALSE
    /\ closeReady = FALSE
    /\ lastChange = Undefined

Init == PadsInit /\ KbInit

\* One call at a time.
Next ==
    \/ startServer(1) \/ startServerResume(1)
    \/ stopServer(1) \/ stopServerResume(1)
    \/ checkServer(1) \/ checkServerResume(1)
    \/ \E pad \in PadArgs : clearPad(1, pad)
    \/ clearAllResume(1) \/ clearPadResume(1)
    \/ status(1) \/ statusResume(1)
    \/ \E pads \in PadsArgs : resetPasswords(1, pads)
    \/ resetPasswordsResume(1)
    \/ \E out \in Outcomes : ProcessExit(1, out)

Spec == Init /\ [][Next]_vars

\* Several calls in flight.
NextConc ==
    \E c \in Calls :
        \/ startServer(c) \/ startServerResume(c)
        \/ stopServer(c) \/ stopServerResume(c)
        \/ checkServer(c) \/ checkServerResume(c)
        \/ \E pad \in ConcPadArgs : clearPad(c, pad)
        \/ clearAllResume(c) \/ clearPadResume(c)
        \/ status(c) \/ statusResume(c)
        \/ \E pads \in ConcPadsArgs : resetPasswords(c, pads)
        \/ resetPasswordsResume(c)
        \/ \E out \in ConcOutcomes : ProcessExit(c, out)

SpecConc == Init /\ [][NextConc]_vars

\* The virtual keyboard.
NextKb ==
    \/ \E cap \in Captions, secret \in BOOLEAN, v0 \in InitialValues, cb \in Callbacks :
          kbOpen(cap, secret, v0, cb)
    \/ \E chr \in Keys : append(chr)
    \/ backspace
    \/ confirm
    \/ cancel
    \/ refClose
    \/ closeReadyTimeout

SpecKb == Init /\ [][NextKb]_vars

(***************************************************************************)
(* Properties.                                                             *)
(***************************************************************************)
\* The eight pad slots, in both forms.
PadIndexes ==
    {Num(0), Num(1), Num(2), Num(3), Num(4), Num(5), Num(6), Num(7),
     Str("0"), Str("1"), Str("2"), Str("3"), Str("4"), Str("5"), Str("6"), Str("7")}

\* The decimal word of a pad index.
IndexWord(p) ==
    IF p.t = "string" THEN p.s
    ELSE CASE p.n = 0 -> "0" [] p.n = 1 -> "1" [] p.n = 2 -> "2" [] p.n = 3 -> "3"
           [] p.n = 4 -> "4" [] p.n = 5 -> "5" [] p.n = 6 -> "6" [] p.n = 7 -> "7"

Called(c, op) == pc[c] # "idle" /\ call[c].op = op
Returned(c) == pc[c] = "returned"
Ran(c) == invoked[c] # <<>>
\* The exit code of the process of call c: 0 when the run gave none.
OwnCode(c) ==
    IF proc[c].out.result = Undefined THEN 0 ELSE proc[c].out.result.code
ErrorEnvelope(dump) == [status |-> "error", hint |-> "unknown", dump |-> dump]

\* C1: clearPad with an argument that is neither a pad index nor "all"
\* returns {code: 1, details: {status: "error", hint: "pad:invalid-index",
\* index: <the argument>}} and runs no command.
C1_InvalidIndexRefused ==
    \A c \in Calls :
        Called(c, "clearPad") /\ call[c].arg \notin PadIndexes \cup {Str("all")}
        => /\ Returned(c)
           /\ ret[c] = [code |-> 1,
                        details |-> [status |-> "error", hint |-> "pad:invalid-index",
                                     index |-> call[c].arg]]
           /\ invoked[c] = <<>>
           /\ proc[c] = NoProcess

\* C2: a call whose process exited with a non-zero code k returns
\* {code: k, details: {status: "error", hint: "unknown", dump: <stderr>}},
\* whatever stdout holds.
C2_NonZeroExitEnvelope ==
    \A c \in Calls :
        Returned(c) /\ Ran(c) /\ OwnCode(c) # 0
        => ret[c] = [code |-> OwnCode(c), details |-> ErrorEnvelope(proc[c].out.stderr)]

C4_NothingToReset ==
    \A c \in Calls :
        /\ Called(c, "resetPasswords")
        /\ \/ call[c].arg \in {Undefined, Null, Num(0), Str(""), Bool(FALSE)}
           \/ /\ call[c].arg.t = "array"
              /\ \A i \in 1..Len(call[c].arg.a) : call[c].arg.a[i] \notin PadIndexes
        => /\ Returned(c)
           /\ ret[c] = [code |-> 0]
           /\ invoked[c] = <<>>
           /\ proc[c] = NoProcess

\* resetPasswords returned from a non-empty sequence of invalid elements.
C4_Witness ==
    \E c \in Calls :
        /\ Called(c, "resetPasswords") /\ Returned(c)
        /\ call[c].arg.t = "array" /\ Len(call[c].arg.a) >= 2
        /\ ret[c] = [code |-> 0]

\* The words of the pad indexes of a sequence, in its order: every
\* occurrence of a pad index gives a word.
RECURSIVE IndexWords(_)
IndexWords(a) ==
    IF a = <<>> THEN <<>>
    ELSE LET rest == IndexWords(Tail(a)) IN
         IF Head(a) \in PadIndexes THEN <<IndexWord(Head(a))>> \o rest ELSE rest

\* The words of ws without those that occurred before.
RECURSIVE FirstOccurrences(_, _)
FirstOccurrences(ws, seen) ==
    IF ws = <<>> THEN <<>>
    ELSE IF Head(ws) \in seen THEN FirstOccurrences(Tail(ws), seen)
    ELSE <<Head(ws)>> \o FirstOccurrences(Tail(ws), seen \cup {Head(ws)})

\* "reset-passwords" followed by a space and each word.
RECURSIVE ResetCommand(_)
ResetCommand(ws) ==
    IF ws = <<>> THEN "virtualpad-admin pad reset-passwords"
    ELSE ResetCommand(SubSeq(ws, 1, Len(ws) - 1)) \o " " \o ws[Len(ws)]

HasPadIndex(c) ==
    /\ Called(c, "resetPasswords")
    /\ call[c].arg.t = "array"
    /\ \E i \in 1..Len(call[c].arg.a) : call[c].arg.a[i] \in PadIndexes

\* C5 as stated: for a sequence with a pad index, the one command run is
\* `pad reset-passwords` followed by the indexes left by an order-preserving
\* filter that drops the invalid elements and the duplicates.
C5_FilterDropsDuplicates ==
    \A c \in Calls :
        HasPadIndex(c)
        => invoked[c] = <<ResetCommand(FirstOccurrences(IndexWords(call[c].arg.a), {}))>>

\* C5, amended: for a sequence with a pad index, the one command run is
\* `pad reset-passwords` followed by the indexes left by an order-preserving
\* filter that drops the invalid elements only: every occurrence of a pad
\* index is kept, in the input order.
C5_FilterKeepsValid ==
    \A c \in Calls :
        HasPadIndex(c) => invoked[c] = <<ResetCommand(IndexWords(call[c].arg.a))>>

\* resetPasswords ran its command for a sequence with an invalid element
\* and a pad index given twice.
C5_Witness ==
    \E c \in Calls :
        /\ HasPadIndex(c) /\ Ran(c)
        /\ call[c].arg.a = <<Num(3), Num(99), Num(3)>>

C7_NeverRejects == \A c \in Calls : pc[c] # "rejected"

\* C8: a returned startServer, stopServer, checkServer or status has run
\* exactly its fixed command, once; no call has ever run more than one
\* command, also after a failed run.
C8_OneCommand ==
    \A c \in Calls :
        /\ Len(invoked[c]) <= 1
        /\ Returned(c) /\ call[c].op = "startServer"
           => invoked[c] = <<"virtualpad-admin server start">>
        /\ Returned(c) /\ call[c].op = "stopServer"
           => invoked[c] = <<"virtualpad-admin server stop">>
        /\ Returned(c) /\ call[c].op = "checkServer"
           => invoked[c] = <<"virtualpad-admin server check">>
        /\ Returned(c) /\ call[c].op = "status"
           => invoked[c] = <<"virtualpad-admin pad status">>

\* startServer returned after a run that failed.
C8_Witness ==
    \E c \in Calls :
        /\ Called(c, "startServer") /\ Returned(c)
        /\ OwnCode(c) # 0
        /\ Len(invoked[c]) = 1

\* What a call returns from the outcome of its process when it is the only
\* call.
AloneResult(cl, out) ==
    LET code == IF out.result = Undefined THEN 0 ELSE out.result.code IN
    [code |-> code,
     details |->
        IF code # 0 THEN [satus |-> "error", hint |-> "unknown", dump |-> out.stderr]
        ELSE IF cl.arg = Str("all") THEN [type |-> "response", status |-> "pad:ok"]
        ELSE IF out.reply # Undefined THEN out.reply
        ELSE [status |-> "error", hint |-> "unknown", dump |-> out.stdout]]

\* C9: with several calls in flight, a call that ran a command has returned
\* only after its own process exited, and with the result it gives alone for
\* the outcome of its own process; a call whose process exited can return
\* and a call not yet made can start, whatever the other calls are doing;
\* the module-level set of pad indexes never changes.
C9_CallsIndependent ==
    /\ _pads = PadIndexes
    /\ \A c \in Calls :
        /\ Returned(c) /\ Ran(c)
           => /\ proc[c].state = "exited"
              /\ ret[c] = AloneResult(call[c], proc[c].out)
        /\ pc[c] \in AwaitSites /\ proc[c].state = "exited"
           => ENABLED (\/ startServerResume(c) \/ stopServerResume(c)
                       \/ checkServerResume(c) \/ clearAllResume(c)
                       \/ clearPadResume(c) \/ statusResume(c)
                       \/ resetPasswordsResume(c))
        /\ pc[c] = "idle" => ENABLED status(c)

\* A call has returned while another one, whose process exited with another
\* outcome, is still suspended.
C9_Witness ==
    \E c, d \in Calls :
        /\ Returned(c) /\ Ran(c)
        /\ pc[d] \in AwaitSites /\ proc[d].state = "exited"
        /\ proc[d].out # proc[c].out

\* C10: the caller's onChange is called with the value of the keyboard as it
\* stands when the user confirms.
C10_ConfirmGivesEditedValue ==
    lastChange # Undefined => lastChange.received = lastChange.passed

====
